---- MODULE Spec2Model ----
(***************************************************************************)
(* Model of the Go pipeline core (package pipeline: Pipeline.New/Add/Stop/ *)
(* Wait, Source, FanOut, Sink) driven the way main() drives it:            *)
(*     Source -> FanOut(workerCount) -> Sink, then p.Wait().               *)
(* Every goroutine is a process with a program counter; an unbuffered      *)
(* channel transfer is one joint step of the sender and the receiver; a    *)
(* select takes any one of its ready cases.                                *)
(***************************************************************************)
EXTENDS Integers, Sequences, FiniteSets, TLC

\* ------------------------------------------------------------------ bounds
\* Largest number of items the generator emits.
MaxItems == 2
\* Largest workerCount handed to FanOut.
MaxWorkers == 2

\* ------------------------------------------------------------------ state
VARIABLES
    workerCount,    \* FanOut's workerCount argument
    items,          \* the sequence the generator emits, in order
    failItems,      \* the items on which the transform returns an error
    pwg,            \* Pipeline.wg counter
    wg,             \* FanOut's local WaitGroup counter
    cancelled,      \* derived context: Done() closed
    cause,          \* derived context: context.Cause(ctx)
    parentCancelled,\* parent context: Done() closed
    driverPc,       \* main goroutine
    exitCode,       \* what main reports after Wait
    srcPc,          \* Source task
    srcIdx,         \* index of the item the generator is at
    inClosers,      \* tasks that closed the Source output channel, in order
    supPc,          \* FanOut supervising task
    supI,           \* its loop variable i
    wPc,            \* worker tasks
    wItem,          \* the item or result a worker holds
    outClosers,     \* tasks that closed the FanOut output channel, in order
    sinkPc,         \* Sink task
    sinkItem,       \* the item the Sink holds
    consumed,       \* the values passed to the Sink's consumer, in order
    \* history
    wIdx,           \* emission index of the item a worker holds
    sinkIdx,        \* emission index of the item the Sink holds
    nRecv,          \* per emission index: receives by workers
    nFn,            \* per emission index: transform invocations
    consumedIdx,    \* emission indexes behind consumed
    nFail,          \* transform invocations that returned an error
    lateAdd,        \* some Add call was made after main had entered Wait
    stoppers,       \* who has completed a Stop call
    firstStop       \* the argument of the Stop call that found the context live

cfgVars == <<workerCount, items, failItems>>
ctlVars == <<pwg, wg, cancelled, cause, parentCancelled, stoppers, firstStop>>
drvVars == <<driverPc, exitCode>>
srcVars == <<srcPc, srcIdx, inClosers>>
supVars == <<supPc, supI, outClosers, lateAdd>>
wrkVars == <<wPc, wItem, wIdx, nRecv, nFn, nFail>>
snkVars == <<sinkPc, sinkItem, sinkIdx, consumed, consumedIdx>>
vars == <<cfgVars, ctlVars, drvVars, srcVars, supVars, wrkVars, snkVars>>

Workers == 1..MaxWorkers
Indexes == 1..MaxItems

\* ------------------------------------------------------------------ values
\* error values (the nil error, context.Canceled, and the errors of the run)
Nil == [kind |-> "nil", item |-> 0]
Canceled == [kind |-> "context.Canceled", item |-> 0]
None == [kind |-> "none", item |-> 0]
WalkErr == [kind |-> "walk", item |-> 0]
DriverErr == [kind |-> "driver", item |-> 0]
TransformErr(x) == [kind |-> "transform", item |-> x]

\* the transform of a run: x*x, or an error on the items of failItems
Transform(x) == x * x

\* the sequences a generator may emit: 1, 2, .., n
ItemSeqs == {[i \in 1..n |-> i] : n \in 0..MaxItems}

\* ------------------------------------------------------------------ Pipeline
\* mutant: context.WithCancel in place of WithCancelCause, the cause is lost
CancelCause_NoCause(c) ==
    IF cancelled THEN cause ELSE Canceled

\* mutant: every cancel call overwrites the cause
CancelCause_LastWins(c) ==
    IF c = Nil THEN Canceled ELSE c

\* context.WithCancelCause: the cause a cancel(c) call leaves behind. The first
\* cancellation sets it (a nil argument gives context.Canceled); later calls
\* change nothing.
CancelCause(c) ==
    IF cancelled THEN cause ELSE IF c = Nil THEN Canceled ELSE c

\* Pipeline.Stop(err) called by task `who`: p.cancel(err)
Stop(who, c) ==
    /\ cause' = CancelCause(c)
    /\ cancelled' = TRUE
    /\ stoppers' = stoppers \cup {who}
    /\ firstStop' = IF cancelled THEN firstStop ELSE c

\* mutant: Add starts the goroutine without p.wg.Add(1)
WgAdd_Forgot(n) == n

\* Pipeline.Add, first half: p.wg.Add(1) in the caller, before the goroutine starts
WgAdd(n) == n + 1

\* mutant: the goroutine of Add ends without p.wg.Done()
WgDone_Forgot(n) == n

\* Pipeline.Add, second half: the deferred p.wg.Done() of the task's goroutine
WgDone(n) == n - 1

Init ==
    /\ workerCount \in 0..MaxWorkers
    /\ items \in ItemSeqs
    /\ failItems \in SUBSET {items[i] : i \in DOMAIN items}
    /\ pwg = 0
    /\ wg = 0
    /\ cancelled = FALSE
    /\ cause = Nil
    /\ parentCancelled = FALSE
    /\ driverPc = "source"
    /\ exitCode = 0
    /\ srcPc = "idle"
    /\ srcIdx = 1
    /\ inClosers = <<>>
    /\ supPc = "idle"
    /\ supI = 0
    /\ lateAdd = FALSE
    /\ wPc = [w \in Workers |-> "idle"]
    /\ wItem = [w \in Workers |-> 0]
    /\ outClosers = <<>>
    /\ sinkPc = "idle"
    /\ sinkItem = 0
    /\ consumed = <<>>
    /\ wIdx = [w \in Workers |-> 0]
    /\ sinkIdx = 0
    /\ nRecv = [i \in Indexes |-> 0]
    /\ nFn = [i \in Indexes |-> 0]
    /\ consumedIdx = <<>>
    /\ nFail = 0
    /\ stoppers = {}
    /\ firstStop = None

\* ------------------------------------------------------------------ main
\* pipeline.Source(ctx, p, generator): make(chan), p.Add(task)
DriverSource ==
    /\ driverPc = "source"
    /\ driverPc' = "fanout"
    /\ pwg' = WgAdd(pwg)
    /\ srcPc' = "check"
    /\ UNCHANGED <<cfgVars, wg, cancelled, cause, parentCancelled, stoppers, firstStop, exitCode,
                   srcIdx, inClosers, supVars, wrkVars, snkVars>>

\* pipeline.FanOut(ctx, p, in, workers, fn): make(chan), p.Add(supervisor)
DriverFanOut ==
    /\ driverPc = "fanout"
    /\ driverPc' = "sink"
    /\ pwg' = WgAdd(pwg)
    /\ supPc' = "loop"
    /\ UNCHANGED <<cfgVars, wg, cancelled, cause, parentCancelled, stoppers, firstStop, exitCode,
                   srcVars, supI, outClosers, lateAdd, wrkVars, snkVars>>

\* pipeline.Sink(ctx, p, in, fn): p.Add(task)
DriverSink ==
    /\ driverPc = "sink"
    /\ driverPc' = "wait"
    /\ pwg' = WgAdd(pwg)
    /\ sinkPc' = "select"
    /\ UNCHANGED <<cfgVars, wg, cancelled, cause, parentCancelled, stoppers, firstStop, exitCode,
                   srcVars, supVars, wrkVars, sinkItem, sinkIdx, consumed, consumedIdx>>

\* Pipeline.Wait: p.wg.Wait() returns when the counter is zero
Wait ==
    /\ driverPc = "wait"
    /\ pwg = 0
    /\ driverPc' = "report"
    /\ UNCHANGED <<cfgVars, ctlVars, exitCode, srcVars, supVars, wrkVars, snkVars>>

\* main after Wait: context.Cause(ctx) != nil && != context.Canceled => exit 1
DriverReport ==
    /\ driverPc = "report"
    /\ driverPc' = "exit"
    /\ exitCode' = IF cause /= Nil /\ cause /= Canceled THEN 1 ELSE 0
    /\ UNCHANGED <<cfgVars, ctlVars, srcVars, supVars, wrkVars, snkVars>>

\* ------------------------------------------------------------------ Source
\* main's generator at the entry of one Walk callback (or at the end of the
\* walk): a walk error stops the pipeline and the walk; a cancelled context
\* ends the walk; otherwise the path is about to be sent.
GenCheck ==
    /\ srcPc = "check"
    /\ \/ /\ srcIdx > Len(items)
          /\ srcPc' = "close"
          /\ UNCHANGED <<cancelled, cause, stoppers, firstStop>>
       \/ /\ srcIdx <= Len(items)
          /\ Stop("source", WalkErr)
          /\ srcPc' = "close"
       \/ /\ srcIdx <= Len(items)
          /\ cancelled
          /\ srcPc' = "close"
          /\ UNCHANGED <<cancelled, cause, stoppers, firstStop>>
       \/ /\ srcIdx <= Len(items)
          /\ ~cancelled
          /\ srcPc' = "send"
          /\ UNCHANGED <<cancelled, cause, stoppers, firstStop>>
    /\ UNCHANGED <<cfgVars, pwg, wg, parentCancelled, drvVars, srcIdx, inClosers,
                   supVars, wrkVars, snkVars>>

\* mutant: the task ends without close(out)
SourceClose_NoClose ==
    /\ srcPc = "close"
    /\ srcPc' = "done"
    /\ pwg' = WgDone(pwg)
    /\ UNCHANGED <<cfgVars, wg, cancelled, cause, parentCancelled, stoppers, firstStop,
                   drvVars, srcIdx, inClosers, supVars, wrkVars, snkVars>>

\* mutant: close(out) only when the context is still live
SourceClose_SkipOnCancel ==
    /\ srcPc = "close"
    /\ inClosers' = IF cancelled THEN inClosers ELSE Append(inClosers, "source")
    /\ srcPc' = "done"
    /\ pwg' = WgDone(pwg)
    /\ UNCHANGED <<cfgVars, wg, cancelled, cause, parentCancelled, stoppers, firstStop,
                   drvVars, srcIdx, supVars, wrkVars, snkVars>>

\* Source's task ends when the generator has returned: the deferred
\* close(out), then the deferred p.wg.Done() of Add's goroutine
SourceClose ==
    /\ srcPc = "close"
    /\ inClosers' = Append(inClosers, "source")
    /\ srcPc' = "done"
    /\ pwg' = WgDone(pwg)
    /\ UNCHANGED <<cfgVars, wg, cancelled, cause, parentCancelled, stoppers, firstStop,
                   drvVars, srcIdx, supVars, wrkVars, snkVars>>

\* ------------------------------------------------------------------ FanOut
\* mutant: FanOut takes a workerCount below 1 as 1
SupSpawn_AtLeastOne ==
    /\ supPc = "loop"
    /\ supI < (IF workerCount < 1 THEN 1 ELSE workerCount)
    /\ wg' = wg + 1
    /\ pwg' = WgAdd(pwg)
    /\ wPc' = [wPc EXCEPT ![supI + 1] = "select"]
    /\ supI' = supI + 1
    /\ lateAdd' = (lateAdd \/ driverPc = "wait")
    /\ UNCHANGED <<cfgVars, cancelled, cause, parentCancelled, stoppers, firstStop, drvVars, srcVars,
                   supPc, outClosers, wItem, wIdx, nRecv, nFn, nFail, snkVars>>

\* supervisor loop body: wg.Add(1); p.Add(worker)
SupSpawn ==
    /\ supPc = "loop"
    /\ supI < workerCount
    /\ wg' = wg + 1
    /\ pwg' = WgAdd(pwg)
    /\ wPc' = [wPc EXCEPT ![supI + 1] = "select"]
    /\ supI' = supI + 1
    /\ lateAdd' = (lateAdd \/ driverPc = "wait")
    /\ UNCHANGED <<cfgVars, cancelled, cause, parentCancelled, stoppers, firstStop, drvVars, srcVars,
                   supPc, outClosers, wItem, wIdx, nRecv, nFn, nFail, snkVars>>

\* mutant: the supervisor goes on to close(out) without wg.Wait()
SupWait_NoWait ==
    /\ supPc = "loop"
    /\ supI >= workerCount
    /\ supPc' = "close"
    /\ UNCHANGED <<cfgVars, ctlVars, drvVars, srcVars, supI, outClosers, lateAdd, wrkVars, snkVars>>

\* supervisor after the loop: wg.Wait() returns when every worker has called wg.Done
SupWait ==
    /\ supPc = "loop"
    /\ supI >= workerCount
    /\ wg = 0
    /\ supPc' = "close"
    /\ UNCHANGED <<cfgVars, ctlVars, drvVars, srcVars, supI, outClosers, lateAdd, wrkVars, snkVars>>

\* mutant: the supervisor ends with p.Stop(nil) after close(out)
SupClose_Stops ==
    /\ supPc = "close"
    /\ outClosers' = Append(outClosers, "supervisor")
    /\ supPc' = "done"
    /\ pwg' = WgDone(pwg)
    /\ Stop("supervisor", Nil)
    /\ UNCHANGED <<cfgVars, wg, parentCancelled, drvVars, srcVars, supI, lateAdd, wrkVars,
                   snkVars>>

\* supervisor: close(out); its task ends: the deferred p.wg.Done() of Add's goroutine
SupClose ==
    /\ supPc = "close"
    /\ outClosers' = Append(outClosers, "supervisor")
    /\ supPc' = "done"
    /\ pwg' = WgDone(pwg)
    /\ UNCHANGED <<cfgVars, wg, cancelled, cause, parentCancelled, stoppers, firstStop,
                   drvVars, srcVars, supI, lateAdd, wrkVars, snkVars>>

\* worker select, case item, ok := <-in with ok: the generator's out <- path
\* and the worker's receive are one transfer on the unbuffered channel
WorkerRecv(w) ==
    /\ wPc[w] = "select"
    /\ srcPc = "send"
    /\ inClosers = <<>>
    /\ wItem' = [wItem EXCEPT ![w] = items[srcIdx]]
    /\ wIdx' = [wIdx EXCEPT ![w] = srcIdx]
    /\ nRecv' = [nRecv EXCEPT ![srcIdx] = @ + 1]
    /\ wPc' = [wPc EXCEPT ![w] = "fn"]
    /\ srcIdx' = srcIdx + 1
    /\ srcPc' = "check"
    /\ UNCHANGED <<cfgVars, ctlVars, drvVars, inClosers, supVars, nFn, nFail, snkVars>>

\* worker select, case item, ok := <-in with !ok: return (deferred wg.Done(), then p.wg.Done())
WorkerInClosed(w) ==
    /\ wPc[w] = "select"
    /\ inClosers /= <<>>
    /\ wPc' = [wPc EXCEPT ![w] = "done"]
    /\ wg' = wg - 1
    /\ pwg' = WgDone(pwg)
    /\ UNCHANGED <<cfgVars, cancelled, cause, parentCancelled, stoppers, firstStop, drvVars, srcVars, supVars, wItem, wIdx, nRecv, nFn,
                   nFail, snkVars>>

\* worker select, case <-ctx.Done() of the outer select: return (deferred wg.Done(), then p.wg.Done())
WorkerRecvCancelled(w) ==
    /\ wPc[w] = "select"
    /\ cancelled
    /\ wPc' = [wPc EXCEPT ![w] = "done"]
    /\ wg' = wg - 1
    /\ pwg' = WgDone(pwg)
    /\ UNCHANGED <<cfgVars, cancelled, cause, parentCancelled, stoppers, firstStop, drvVars, srcVars, supVars, wItem, wIdx, nRecv, nFn,
                   nFail, snkVars>>

\* worker: result, err := fn(item)
WorkerFn(w) ==
    /\ wPc[w] = "fn"
    /\ nFn' = [nFn EXCEPT ![wIdx[w]] = @ + 1]
    /\ IF wItem[w] \in failItems
          THEN /\ wPc' = [wPc EXCEPT ![w] = "stop"]
               /\ nFail' = nFail + 1
               /\ UNCHANGED wItem
          ELSE /\ wPc' = [wPc EXCEPT ![w] = "send"]
               /\ wItem' = [wItem EXCEPT ![w] = Transform(wItem[w])]
               /\ UNCHANGED nFail
    /\ UNCHANGED <<cfgVars, ctlVars, drvVars, srcVars, supVars, wIdx, nRecv, snkVars>>

\* mutant: no return after p.Stop(err), the zero result goes on to the send
WorkerStop_NoReturn(w) ==
    /\ wPc[w] = "stop"
    /\ Stop("worker", TransformErr(wItem[w]))
    /\ wPc' = [wPc EXCEPT ![w] = "send"]
    /\ wItem' = [wItem EXCEPT ![w] = 0]
    /\ UNCHANGED <<cfgVars, pwg, wg, parentCancelled, drvVars, srcVars, supVars,
                   wIdx, nRecv, nFn, nFail, snkVars>>

\* worker: if err != nil { p.Stop(err); return } (deferred wg.Done(), then p.wg.Done())
WorkerStop(w) ==
    /\ wPc[w] = "stop"
    /\ Stop("worker", TransformErr(wItem[w]))
    /\ wPc' = [wPc EXCEPT ![w] = "done"]
    /\ wg' = wg - 1
    /\ pwg' = WgDone(pwg)
    /\ UNCHANGED <<cfgVars, parentCancelled, drvVars, srcVars, supVars, wItem,
                   wIdx, nRecv, nFn, nFail, snkVars>>

\* worker inner select, case out <- result, and the Sink's select, case
\* item, ok := <-in with ok: one transfer on the unbuffered channel
WorkerSend(w) ==
    /\ wPc[w] = "send"
    /\ sinkPc = "select"
    /\ outClosers = <<>>
    /\ sinkItem' = wItem[w]
    /\ sinkIdx' = wIdx[w]
    /\ sinkPc' = "fn"
    /\ wPc' = [wPc EXCEPT ![w] = "select"]
    /\ UNCHANGED <<cfgVars, ctlVars, drvVars, srcVars, supVars, wItem, wIdx, nRecv, nFn,
                   nFail, consumed, consumedIdx>>

\* mutant: continue in place of return in case <-ctx.Done(): the result is
\* dropped and the loop goes on
WorkerSendCancelled_Continue(w) ==
    /\ wPc[w] = "send"
    /\ cancelled
    /\ wPc' = [wPc EXCEPT ![w] = "select"]
    /\ UNCHANGED <<cfgVars, ctlVars, drvVars, srcVars, supVars, wItem, wIdx, nRecv, nFn,
                   nFail, snkVars>>

\* mutant: a default case in place of case <-ctx.Done(): when the Sink is not
\* ready the result is dropped and the loop goes on
WorkerSendCancelled_Default(w) ==
    /\ wPc[w] = "send"
    /\ sinkPc /= "select"
    /\ wPc' = [wPc EXCEPT ![w] = "select"]
    /\ UNCHANGED <<cfgVars, ctlVars, drvVars, srcVars, supVars, wItem, wIdx, nRecv, nFn,
                   nFail, snkVars>>

\* worker inner select, case <-ctx.Done(): return (deferred wg.Done(), then p.wg.Done()), the
\* result is dropped
WorkerSendCancelled(w) ==
    /\ wPc[w] = "send"
    /\ cancelled
    /\ wPc' = [wPc EXCEPT ![w] = "done"]
    /\ wg' = wg - 1
    /\ pwg' = WgDone(pwg)
    /\ UNCHANGED <<cfgVars, cancelled, cause, parentCancelled, stoppers, firstStop, drvVars, srcVars, supVars, wItem, wIdx, nRecv, nFn,
                   nFail, snkVars>>

\* ------------------------------------------------------------------ Sink
\* Sink select, case item, ok := <-in with !ok: return (deferred p.wg.Done())
SinkInClosed ==
    /\ sinkPc = "select"
    /\ pwg' = WgDone(pwg)
    /\ outClosers /= <<>>
    /\ sinkPc' = "done"
    /\ UNCHANGED <<cfgVars, wg, cancelled, cause, parentCancelled, stoppers, firstStop, drvVars, srcVars, supVars, wrkVars, sinkItem, sinkIdx,
                   consumed, consumedIdx>>

\* Sink select, case <-ctx.Done(): return (deferred p.wg.Done())
SinkCancelled ==
    /\ sinkPc = "select"
    /\ pwg' = WgDone(pwg)
    /\ cancelled
    /\ sinkPc' = "done"
    /\ UNCHANGED <<cfgVars, wg, cancelled, cause, parentCancelled, stoppers, firstStop, drvVars, srcVars, supVars, wrkVars, sinkItem, sinkIdx,
                   consumed, consumedIdx>>

\* Sink: fn(item)
SinkFn ==
    /\ sinkPc = "fn"
    /\ consumed' = Append(consumed, sinkItem)
    /\ consumedIdx' = Append(consumedIdx, sinkIdx)
    /\ sinkPc' = "select"
    /\ UNCHANGED <<cfgVars, ctlVars, drvVars, srcVars, supVars, wrkVars, sinkItem, sinkIdx>>

\* ------------------------------------------------------------------ environment
\* a caller of the Pipeline, outside the stages, calls p.Stop(c) once, with a
\* nil or a non-nil cause
DriverStop(c) ==
    /\ "driver" \notin stoppers
    /\ Stop("driver", c)
    /\ UNCHANGED <<cfgVars, pwg, wg, parentCancelled, drvVars, srcVars, supVars, wrkVars,
                   snkVars>>

\* mutant: New derives its context from context.Background(), not from ctx
ParentCancel_NotDerived ==
    /\ ~parentCancelled
    /\ parentCancelled' = TRUE
    /\ UNCHANGED <<cfgVars, pwg, wg, cancelled, cause, stoppers, firstStop, drvVars, srcVars,
                   supVars, wrkVars, snkVars>>

\* the parent context given to New is cancelled: the derived context is
\* cancelled with it, unless it was cancelled before
ParentCancel ==
    /\ ~parentCancelled
    /\ parentCancelled' = TRUE
    /\ cancelled' = TRUE
    /\ cause' = CancelCause(Canceled)
    /\ UNCHANGED <<cfgVars, pwg, wg, stoppers, firstStop, drvVars, srcVars, supVars, wrkVars, snkVars>>

\* ------------------------------------------------------------------ specification
\* the steps of the program's goroutines
TaskNext ==
    \/ DriverSource \/ DriverFanOut \/ DriverSink \/ Wait \/ DriverReport
    \/ GenCheck \/ SourceClose
    \/ SupSpawn \/ SupWait \/ SupClose
    \/ \E w \in Workers :
          \/ WorkerRecv(w) \/ WorkerInClosed(w) \/ WorkerRecvCancelled(w)
          \/ WorkerFn(w) \/ WorkerStop(w)
          \/ WorkerSend(w) \/ WorkerSendCancelled(w)
    \/ SinkInClosed \/ SinkCancelled \/ SinkFn

\* the steps of the program's callers
EnvNext ==
    \/ \E c \in {Nil, DriverErr} : DriverStop(c)
    \/ ParentCancel

Next == TaskNext \/ EnvNext

Spec == Init /\ [][Next]_vars

\* Every goroutine that can take a step eventually takes one (the Go
\* scheduler runs every runnable goroutine); the callers are free to never
\* stop the pipeline.
FairSpec == Spec /\ WF_vars(TaskNext)

\* The program alone, with callers that never stop the pipeline and a parent
\* context that is never cancelled, under the same scheduling.
FairTaskSpec == Init /\ [][TaskNext]_vars /\ WF_vars(TaskNext)

\* ------------------------------------------------------------------ properties
\* Wait has returned in main
WaitReturned == driverPc \in {"report", "exit"}

\* the emitted sequence with the transform applied element by element
Mapped == [i \in DOMAIN items |-> Transform(items[i])]

IsPrefix(s, t) == Len(s) <= Len(t) /\ \A k \in DOMAIN s : s[k] = t[k]

\* the emission indexes whose transform invocation returned an error
FailedIdx == {i \in DOMAIN items : nFn[i] >= 1 /\ items[i] \in failItems}

\* the workers FanOut was asked for
Spawned == 1..workerCount

\* C1: with at least one worker, a transform that never fails and no
\* cancellation at any moment of the run, Wait eventually returns.
C1_TerminatesWithoutCancel ==
    (workerCount >= 1 /\ failItems = {}) => ([](~cancelled) => <>WaitReturned)

C1_Witness ==
    /\ WaitReturned
    /\ ~cancelled
    /\ workerCount = MaxWorkers
    /\ Len(items) = MaxItems
    /\ Len(consumed) = MaxItems

\* C2 (as claimed): once a caller's Stop or the parent's cancellation has
\* happened while the generator still has items to emit, Wait eventually
\* returns.
C2_TerminatesAfterCancel ==
    (workerCount >= 1 /\ failItems = {}) =>
        [](((("driver" \in stoppers) \/ parentCancelled)
              /\ "source" \notin stoppers /\ srcIdx <= Len(items))
            => <>WaitReturned)

\* C3 (as claimed): once a transform invocation has returned an error, Wait
\* eventually returns.
C3_TerminatesAfterError ==
    (workerCount >= 1) => [](nFail >= 1 => <>WaitReturned)

\* C4: when exactly one transform invocation has returned an error e, the
\* worker's Stop(e) has completed and nothing else has cancelled the context,
\* the cause is e, in every later state, and main exits with status 1.
C4_ErrorCause ==
    (nFail = 1 /\ stoppers = {"worker"} /\ ~parentCancelled) =>
        /\ cancelled
        /\ \A i \in FailedIdx : cause = TransformErr(items[i])
        /\ driverPc = "exit" => exitCode = 1

C4_Witness ==
    /\ nFail = 1
    /\ stoppers = {"worker"}
    /\ ~parentCancelled
    /\ FailedIdx = {1}
    /\ cause = TransformErr(items[1])
    /\ driverPc = "exit"

\* C5: the cause is the argument of the Stop call that found the context
\* live, when that argument is not nil, and once the context is cancelled
\* the cause never changes.
C5_FirstCauseWins ==
    /\ []((firstStop /= None /\ firstStop /= Nil) => cause = firstStop)
    /\ [][cancelled => (cancelled' /\ cause' = cause)]_vars

C5_Witness ==
    /\ firstStop = DriverErr
    /\ cause = DriverErr
    /\ "worker" \in stoppers
    /\ nFail = 2

\* C6: with one worker, a transform that never fails and no cancellation, the
\* consumed sequence is a prefix of the transformed emitted sequence, and the
\* whole of it when the Sink has returned.
C6_OrderOneWorker ==
    (workerCount = 1 /\ failItems = {} /\ ~cancelled) =>
        /\ IsPrefix(consumed, Mapped)
        /\ sinkPc = "done" => consumed = Mapped

C6_Witness ==
    /\ workerCount = 1
    /\ ~cancelled
    /\ sinkPc = "done"
    /\ Len(items) = MaxItems
    /\ consumed = Mapped

\* C7: every emitted item is received at most once, transformed at most once
\* and consumed at most once, and every consumed value is the transform of
\* an emitted item that no other consumed value comes from.
C7_NeverSuperset ==
    /\ \A i \in Indexes : nRecv[i] <= 1 /\ nFn[i] <= nRecv[i]
    /\ \A i \in Indexes : nRecv[i] >= 1 => i \in DOMAIN items
    /\ Len(consumedIdx) = Len(consumed)
    /\ \A k \in DOMAIN consumed :
          /\ consumedIdx[k] \in DOMAIN items
          /\ nFn[consumedIdx[k]] = 1
          /\ consumed[k] = Transform(items[consumedIdx[k]])
          /\ \A j \in DOMAIN consumed : consumedIdx[j] = consumedIdx[k] => j = k

C7_Witness ==
    /\ workerCount = MaxWorkers
    /\ cancelled
    /\ nFail = 1
    /\ Len(items) = MaxItems
    /\ Len(consumed) = MaxItems - 1
    /\ sinkPc = "done"

\* C8: the FanOut output channel is closed at most once, by the supervisor,
\* when every one of the workerCount workers has been started and has
\* returned; no worker is at its send once the channel is closed.
C8_OutClosure ==
    /\ Len(outClosers) <= 1
    /\ \A k \in DOMAIN outClosers : outClosers[k] = "supervisor"
    /\ outClosers /= <<>> =>
          /\ supI = workerCount
          /\ \A w \in Spawned : wPc[w] = "done"
          /\ \A w \in Workers : wPc[w] /= "send"

C8_Witness ==
    /\ outClosers = <<"supervisor">>
    /\ workerCount = MaxWorkers
    /\ cancelled
    /\ nFail >= 1

\* C9: the Source output channel is closed at most once, by the Source task,
\* never before the generator has returned, and it is closed when the
\* Source task has ended, after a normal or an early return.
C9_InClosure ==
    /\ Len(inClosers) <= 1
    /\ \A k \in DOMAIN inClosers : inClosers[k] = "source"
    /\ inClosers /= <<>> => srcPc = "done"
    /\ srcPc = "done" => Len(inClosers) = 1

C9_Witness ==
    /\ srcPc = "done"
    /\ inClosers = <<"source">>
    /\ cancelled
    /\ srcIdx <= Len(items)

\* C10: when Wait has returned, the Source, the supervisor, every one of the
\* workerCount workers and the Sink have returned.
C10_WaitBarrier ==
    WaitReturned =>
        /\ srcPc = "done"
        /\ supPc = "done"
        /\ supI = workerCount
        /\ \A w \in Spawned : wPc[w] = "done"
        /\ sinkPc = "done"

C10_Witness ==
    /\ WaitReturned
    /\ workerCount = MaxWorkers
    /\ lateAdd

\* C11: a cancelled parent context means a cancelled derived context; the
\* step that cancels the parent leaves the derived context cancelled, with
\* the parent's cause when it was live and with its own cause otherwise; no
\* Stop call cancels the parent.
C11_ParentToChild ==
    /\ [](parentCancelled => cancelled)
    /\ [][(~parentCancelled /\ parentCancelled') =>
             /\ cancelled'
             /\ cause' = (IF cancelled THEN cause ELSE Canceled)
             /\ stoppers' = stoppers]_vars
    /\ [][stoppers' /= stoppers => parentCancelled' = parentCancelled]_vars

C11_Witness ==
    /\ parentCancelled
    /\ firstStop = None
    /\ cause = Canceled
    /\ "driver" \in stoppers
    /\ "worker" \in stoppers

\* C12 (as claimed): once the derived context is cancelled the Sink takes no
\* further item from its input channel (at a select with both cases ready
\* the cancellation case is the one taken), so it passes to the consumer
\* nothing received after the cancellation.
C12_SinkStopsAtCancel ==
    [][cancelled => ~(sinkPc = "select" /\ sinkPc' = "fn")]_vars

\* C13 (as claimed): once the derived context is cancelled no worker
\* receives a further item from the input channel and no worker completes a
\* send on the output channel.
C13_WorkersStopAtCancel ==
    [][cancelled =>
          \A w \in Workers :
              /\ ~(wPc[w] = "select" /\ wPc'[w] = "fn")
              /\ ~(wPc[w] = "send" /\ wPc'[w] = "select")]_vars

\* the emission indexes of the items on which the transform succeeds
GoodIdx == {i \in DOMAIN items : items[i] \notin failItems}

\* C14: a worker whose transform returned an error holds the failed item
\* until its Stop call, which cancels the context with that error when the
\* context was live, and then it has returned for good; no result of a
\* failed item is held for sending, held by the Sink or consumed, so the
\* consumer is invoked at most once per item on which the transform succeeds.
C14_FailedItemNoOutput ==
    /\ [](/\ \A w \in Workers :
               /\ wPc[w] = "stop" => items[wIdx[w]] \in failItems
               /\ wPc[w] = "send" => wIdx[w] \in GoodIdx
          /\ sinkPc = "fn" => sinkIdx \in GoodIdx
          /\ \A k \in DOMAIN consumedIdx : consumedIdx[k] \in GoodIdx
          /\ Len(consumed) <= Cardinality(GoodIdx))
    /\ [][\A w \in Workers :
             /\ wPc[w] = "stop" /\ wPc'[w] /= "stop" =>
                   /\ wPc'[w] = "done"
                   /\ "worker" \in stoppers'
                   /\ cancelled'
                   /\ ~cancelled => cause' = TransformErr(items[wIdx[w]])
                   /\ nRecv' = nRecv
             /\ wPc[w] = "done" => wPc'[w] = "done"]_vars

C14_Witness ==
    /\ Len(items) = MaxItems
    /\ failItems = {items[MaxItems]}
    /\ cause = TransformErr(items[MaxItems])
    /\ Len(consumed) = MaxItems - 1
    /\ \A w \in Spawned : wPc[w] = "done"
    /\ sinkPc = "done"

\* the workers that have been started and have not returned
RunningWorkers == {w \in Workers : wPc[w] \notin {"idle", "done"}}

\* the number of tasks started through Add that have not returned
Running ==
    (IF srcPc \in {"idle", "done"} THEN 0 ELSE 1)
    + (IF supPc \in {"idle", "done"} THEN 0 ELSE 1)
    + (IF sinkPc \in {"idle", "done"} THEN 0 ELSE 1)
    + Cardinality(RunningWorkers)

\* C15: the Pipeline's counter is the number of tasks started through Add
\* that have not returned, it is never negative, and it is at least 1
\* whenever the supervisor is running, so at each of its Add calls.
C15_CounterInvariant ==
    /\ pwg = Running
    /\ pwg >= 0
    /\ supPc \in {"loop", "close"} => pwg >= 1
    /\ wg = Cardinality(RunningWorkers)

C15_Witness ==
    /\ pwg = 1
    /\ supPc = "loop"
    /\ supI < workerCount
    /\ srcPc = "done"
    /\ sinkPc = "done"
    /\ \E w \in Workers : wPc[w] = "done"

\* the number of positions of sequence s that hold v
Count(s, v) == Cardinality({k \in DOMAIN s : s[k] = v})

\* C16: with at least one worker, a transform that never fails and no
\* cancellation, when the Sink has returned (so also when Wait has returned)
\* the consumed values are a permutation of the transformed emitted items.
C16_NoLoss ==
    (workerCount >= 1 /\ failItems = {} /\ ~cancelled /\ sinkPc = "done") =>
        /\ Len(consumed) = Len(items)
        /\ \A i \in DOMAIN Mapped : Count(consumed, Mapped[i]) = Count(Mapped, Mapped[i])

C16_Witness ==
    /\ WaitReturned
    /\ ~cancelled
    /\ workerCount = MaxWorkers
    /\ Len(consumed) = MaxItems
    /\ consumed /= Mapped

\* C17: with one worker the consumed sequence is at every moment a prefix
\* of the transformed emitted sequence, whatever cancels the run.
C17_PrefixOneWorker ==
    workerCount = 1 => IsPrefix(consumed, Mapped)

C17_Witness ==
    /\ workerCount = 1
    /\ cancelled
    /\ Len(items) = MaxItems
    /\ Len(consumed) = MaxItems - 1
    /\ nFn[MaxItems] = 1
    /\ failItems = {}
    /\ wPc[1] = "done"

\* C18: only the generator, a worker and a caller of the Pipeline complete
\* Stop calls, a worker only after a failed transform invocation; with no
\* Stop call and no cancelled parent the derived context is live and its
\* cause unset.
C18_CancelOrigins ==
    /\ stoppers \subseteq {"source", "worker", "driver"}
    /\ "worker" \in stoppers => nFail >= 1
    /\ (stoppers = {} /\ ~parentCancelled) => (~cancelled /\ cause = Nil)

C18_Witness ==
    /\ driverPc = "exit"
    /\ exitCode = 0
    /\ stoppers = {}
    /\ ~parentCancelled
    /\ workerCount = MaxWorkers
    /\ Len(consumed) = MaxItems

\* C19: with workerCount = 0 no worker is ever started, no item is ever
\* received from the Source, the Sink consumes nothing, and a generator that
\* has reached its send stays there, so Wait does not return.
C19_ZeroWorkers ==
    /\ [](workerCount = 0 =>
             /\ supI = 0
             /\ \A w \in Workers : wPc[w] = "idle"
             /\ \A i \in Indexes : nRecv[i] = 0
             /\ consumed = <<>>
             /\ sinkPc \in {"idle", "select", "done"}
             /\ srcPc = "send" => ~WaitReturned)
    /\ [][(workerCount = 0 /\ srcPc = "send") => srcPc' = "send"]_vars

C19_Witness ==
    /\ workerCount = 0
    /\ srcPc = "send"
    /\ outClosers = <<"supervisor">>
    /\ supPc = "done"
    /\ sinkPc = "done"
    /\ cancelled
    /\ driverPc = "wait"

====
